---- MODULE Spec2Model ----
(***************************************************************************)
(* Model of src/chain_spec.rs: the identity derivers authority_key and     *)
(* account_key, the genesis assembler testnet_genesis, the two profile     *)
(* builders dev and local, and the two derivation tests.                   *)
(*                                                                         *)
(* A label (&str) is its UTF-8 byte sequence.  The key derivation of       *)
(* substrate_primitives is modelled by its structure: a public key is the  *)
(* record of the scheme, the seed material and the junction path it was    *)
(* derived through, so that two keys are equal exactly when they were      *)
(* derived by the same scheme from the same seed through the same path.    *)
(***************************************************************************)
EXTENDS Integers, Sequences, FiniteSets, TLC

\* ---------------------------------------------------------------- bounds
NumThreads == 2
MaxAuthorities == 2
MaxEndowed == 3
MaxCalls == 3

\* ---------------------------------------------------------------- labels
Alice == <<65, 108, 105, 99, 101>>
Bob == <<66, 111, 98>>
Charlie == <<67, 104, 97, 114, 108, 105, 101>>
Dave == <<68, 97, 118, 101>>
Eve == <<69, 118, 101>>
Ferdie == <<70, 101, 114, 100, 105, 101>>
Slash == 47

\* const KEY_DERIVE_NAMES: ["Alice", "/Alice", "//Alice", "1", "0"]
KEY_DERIVE_NAMES == << Alice, <<Slash>> \o Alice, <<Slash, Slash>> \o Alice, <<49>>, <<48>> >>

\* a label longer than a junction identifier (33 bytes of "a")
LongLabel == [i \in 1..33 |-> 97]

Range(s) == {s[i] : i \in 1..Len(s)}

\* the labels of the direct derivation calls
Labels == {KEY_DERIVE_NAMES[1], KEY_DERIVE_NAMES[2], KEY_DERIVE_NAMES[4], LongLabel}

\* --------------------------------------------------------------- state
VARIABLES
    threads,    \* per thread: the genesis closure of a profile being run
    faults,     \* key-generation steps of the primitive that fail
    call,       \* the last direct call of testnet_genesis: arguments and result
    log,        \* history of authority_key / account_key calls and outcomes
    tests       \* position of each #[test] loop over KEY_DERIVE_NAMES

vars == <<threads, faults, call, log, tests>>

Threads == 1..NumThreads

\* ------------------------------------------------- substrate_primitives
DEV_PHRASE == "bottom drive obey lake curtain smoke basket hold race lonely fit walk"
JUNCTION_ID_LEN == 32
None == <<>>
Some(v) == <<v>>

\* SCALE encoding of a str: compact length prefix, then the bytes
\* (single-byte mode below 64, two-byte mode otherwise; labels stay short)
Encode(s) ==
    IF Len(s) < 64 THEN <<Len(s) * 4>> \o s
    ELSE <<((Len(s) * 4) + 1) % 256, (Len(s) * 4) \div 256>> \o s

\* the 32-byte chain code of a junction: the encoding zero-padded, or its
\* blake2b hash (kept as its preimage) when the encoding is too long
ChainCode(data) ==
    IF Len(data) > JUNCTION_ID_LEN
    THEN [hashed |-> TRUE, bytes |-> data]
    ELSE [hashed |-> FALSE,
          bytes |-> [i \in 1..JUNCTION_ID_LEN |-> IF i <= Len(data) THEN data[i] ELSE 0]]

DeriveJunction_soft(s) == [hard |-> FALSE, cc |-> ChainCode(Encode(s))]

\* the junction parsed from a path segment instead (DeriveJunction::from):
\* hard only behind a leading '/', soft otherwise
DeriveJunction_from(s) ==
    IF Len(s) > 0 /\ s[1] = Slash
    THEN [hard |-> TRUE, cc |-> ChainCode(Encode(Tail(s)))]
    ELSE [hard |-> FALSE, cc |-> ChainCode(Encode(s))]

\* DeriveJunction::hard(s) == DeriveJunction::soft(s).harden()
DeriveJunction_hard(s) == [hard |-> TRUE, cc |-> DeriveJunction_soft(s).cc]

\* iter::once
once(j) == <<j>>

\* the mnemonic phrases the key generation accepts
ValidPhrases == {DEV_PHRASE}

Ok(v) == [ok |-> TRUE, val |-> v]
Err(e) == [ok |-> FALSE, val |-> e]

\* Pair::from_standard_components(phrase, password, path): the seed from the
\* phrase, then one derivation per junction.  ed25519 has no soft derivation.
from_standard_components(scheme, phrase, password, path) ==
    IF phrase \notin ValidPhrases THEN Err("InvalidPhrase")
    ELSE IF scheme = "ed25519" /\ \E i \in 1..Len(path) : ~path[i].hard
         THEN Err("InvalidPath")
    ELSE IF \E i \in 1..Len(path) : <<scheme, path[i].cc>> \in faults
         THEN Err("InvalidSeed")
    ELSE Ok([scheme |-> scheme, seed |-> <<phrase, password>>, path |-> path])

\* Pair::public(): the public half, a function of the secret alone
public(pair) == [scheme |-> pair.scheme, of |-> <<pair.seed, pair.path>>]

\* Result::expect(msg): the value, or a panic carrying msg
Panic(msg) == [panic |-> TRUE, val |-> msg]
Value(v) == [panic |-> FALSE, val |-> v]
\* variant: a failed result falls back to a default key pair
DefaultPair == [scheme |-> "default", seed |-> <<>>, path |-> <<>>]
expect_or_default(result, msg) == Value(IF result.ok THEN result.val ELSE DefaultPair)

expect(result, msg) == IF result.ok THEN Value(result.val) ELSE Panic(msg)

\* ------------------------------------------------------ chain_spec.rs
\* fn authority_key(s: &str) -> AuraId
authority_key(s) ==
    LET r == expect(from_standard_components("ed25519", DEV_PHRASE, None,
                                             once(DeriveJunction_hard(s))),
                    "err generating authority key")
    IN IF r.panic THEN r ELSE Value(public(r.val))

\* variant: the derivation is salted with the number of calls made so far
account_key_salted(s) ==
    LET r == expect(from_standard_components("sr25519", DEV_PHRASE, None,
                        once(DeriveJunction_hard(Append(s, Len(log) % 256)))),
                    "err generating account key")
    IN IF r.panic THEN r ELSE Value(public(r.val))

\* variant: the seed is cached in state shared by the threads, here the
\* number of closures that have finished
account_key_shared(s) ==
    LET n == Cardinality({t \in Threads : threads[t].pc = "done"})
        r == expect(from_standard_components("sr25519", DEV_PHRASE, Some(n),
                                             once(DeriveJunction_hard(s))),
                    "err generating account key")
    IN IF r.panic THEN r ELSE Value(public(r.val))

\* fn account_key(s: &str) -> AccountId
account_key(s) ==
    LET r == expect(from_standard_components("sr25519", DEV_PHRASE, None,
                                             once(DeriveJunction_hard(s))),
                    "err generating account key")
    IN IF r.panic THEN r ELSE Value(public(r.val))

\* the runtime blob, an opaque byte string ("\0asm")
WASM_BINARY == <<0, 97, 115, 109>>

\* u128 values as the set of their one-bits
BalanceBits == 128
One == {0}
Shl(x, n) == {b + n : b \in x} \cap (0..(BalanceBits - 1))

\* a sequence without its repeated entries (first occurrences kept)
RECURSIVE Dedup(_)
Dedup(q) ==
    IF q = <<>> THEN <<>>
    ELSE LET front == Dedup(SubSeq(q, 1, Len(q) - 1))
             last == q[Len(q)]
         IN IF last \in Range(front) THEN front ELSE Append(front, last)

Reverse(q) == [i \in 1..Len(q) |-> q[Len(q) + 1 - i]]

\* variant: the authority list is deduplicated
testnet_genesis_dedup(initial_authorities, endowed_accounts, root_key) ==
    [system |-> [code |-> WASM_BINARY, changes_trie_config |-> "default"],
     srml_aura |-> [authorities |-> Dedup(initial_authorities)],
     srml_indices |-> [ids |-> endowed_accounts],
     srml_balances |->
        [balances |-> [i \in 1..Len(endowed_accounts) |->
                          <<endowed_accounts[i], Shl(One, 60)>>],
         vesting |-> <<>>],
     srml_sudo |-> [key |-> root_key]]

\* variant: the balances are collected through a map keyed by account
testnet_genesis_map(initial_authorities, endowed_accounts, root_key) ==
    [system |-> [code |-> WASM_BINARY, changes_trie_config |-> "default"],
     srml_aura |-> [authorities |-> initial_authorities],
     srml_indices |-> [ids |-> endowed_accounts],
     srml_balances |->
        [balances |-> [i \in 1..Len(Dedup(endowed_accounts)) |->
                          <<Dedup(endowed_accounts)[i], Shl(One, 60)>>],
         vesting |-> <<>>],
     srml_sudo |-> [key |-> root_key]]

\* variant: the index table is built back to front
testnet_genesis_rev(initial_authorities, endowed_accounts, root_key) ==
    [system |-> [code |-> WASM_BINARY, changes_trie_config |-> "default"],
     srml_aura |-> [authorities |-> initial_authorities],
     srml_indices |-> [ids |-> Reverse(endowed_accounts)],
     srml_balances |->
        [balances |-> [i \in 1..Len(endowed_accounts) |->
                          <<endowed_accounts[i], Shl(One, 60)>>],
         vesting |-> <<>>],
     srml_sudo |-> [key |-> root_key]]

\* fn testnet_genesis(initial_authorities, endowed_accounts, root_key)
testnet_genesis(initial_authorities, endowed_accounts, root_key) ==
    [system |-> [code |-> WASM_BINARY, changes_trie_config |-> "default"],
     srml_aura |-> [authorities |-> initial_authorities],
     srml_indices |-> [ids |-> endowed_accounts],
     srml_balances |->
        [balances |-> [i \in 1..Len(endowed_accounts) |->
                          <<endowed_accounts[i], Shl(One, 60)>>],
         vesting |-> <<>>],
     srml_sudo |-> [key |-> root_key]]

\* ------------------------------------------------------ profile builders
\* dev(): vec![authority_key("Alice")], vec![account_key("Alice")], account_key("Alice")
dev_authority_labels == <<Alice>>
dev_endowed_labels == <<Alice>>
\* variant: another participant is made root
dev_root_label_bob == Bob
dev_root_label == Alice

\* local(): two authorities, six endowed accounts, root "Alice"
local_authority_labels == <<Alice, Bob>>
\* variant: a label of the list is repeated in place of the last one
local_endowed_labels_dup == <<Alice, Bob, Charlie, Dave, Eve, Eve>>
local_endowed_labels == <<Alice, Bob, Charlie, Dave, Eve, Ferdie>>
local_root_label == Alice

authority_labels(profile) ==
    IF profile = "dev" THEN dev_authority_labels ELSE local_authority_labels
endowed_labels(profile) ==
    IF profile = "dev" THEN dev_endowed_labels ELSE local_endowed_labels
root_label(profile) ==
    IF profile = "dev" THEN dev_root_label ELSE local_root_label

\* a thread that runs no genesis closure
Idle ==
    [pc |-> "idle", profile |-> "none", derived |-> 0,
     initial_authorities |-> <<>>, endowed_accounts |-> <<>>,
     root_key |-> None, genesis |-> None]

\* unwinding after a failed expect: the arguments built so far are dropped
\* and the closure returns nothing
Unwound(th) ==
    [th EXCEPT !.pc = "panicked", !.derived = th.derived + 1,
               !.initial_authorities = <<>>, !.endowed_accounts = <<>>,
               !.root_key = None, !.genesis = None]

\* the genesis closure of dev() starts on thread t
dev(t) ==
    /\ threads[t].pc = "idle"
    /\ threads' = [threads EXCEPT ![t] = [Idle EXCEPT !.pc = "authorities", !.profile = "dev"]]
    /\ UNCHANGED <<faults, call, log, tests>>

\* the genesis closure of local() starts on thread t
local(t) ==
    /\ threads[t].pc = "idle"
    /\ threads' = [threads EXCEPT ![t] = [Idle EXCEPT !.pc = "authorities", !.profile = "local"]]
    /\ UNCHANGED <<faults, call, log, tests>>

\* the next element of the first argument, vec![authority_key(..), ..]
DeriveAuthority(t) ==
    LET th == threads[t]
        labels == authority_labels(th.profile)
        k == Len(th.initial_authorities) + 1
        r == authority_key(labels[k])
    IN /\ th.pc = "authorities"
       /\ threads' = [threads EXCEPT ![t] =
             IF r.panic THEN Unwound(th)
             ELSE [th EXCEPT !.initial_authorities = Append(@, r.val),
                             !.derived = @ + 1,
                             !.pc = IF k = Len(labels) THEN "endowed" ELSE @]]
       /\ UNCHANGED <<faults, call, log, tests>>

\* the next element of the second argument, vec![account_key(..), ..]
DeriveEndowed(t) ==
    LET th == threads[t]
        labels == endowed_labels(th.profile)
        k == Len(th.endowed_accounts) + 1
        r == account_key(labels[k])
    IN /\ th.pc = "endowed"
       /\ threads' = [threads EXCEPT ![t] =
             IF r.panic THEN Unwound(th)
             ELSE [th EXCEPT !.endowed_accounts = Append(@, r.val),
                             !.derived = @ + 1,
                             !.pc = IF k = Len(labels) THEN "root" ELSE @]]
       /\ UNCHANGED <<faults, call, log, tests>>

\* the third argument, account_key(..)
DeriveRoot(t) ==
    LET th == threads[t]
        r == account_key(root_label(th.profile))
    IN /\ th.pc = "root"
       /\ threads' = [threads EXCEPT ![t] =
             IF r.panic THEN Unwound(th)
             ELSE [th EXCEPT !.root_key = Some(r.val), !.derived = @ + 1,
                             !.pc = "assemble"]]
       /\ UNCHANGED <<faults, call, log, tests>>

\* the call testnet_genesis(..) once all three arguments are evaluated
Assemble(t) ==
    LET th == threads[t]
    IN /\ th.pc = "assemble"
       /\ threads' = [threads EXCEPT ![t] =
             [th EXCEPT !.genesis = Some(testnet_genesis(th.initial_authorities,
                                                         th.endowed_accounts,
                                                         th.root_key[1])),
                        !.pc = "done"]]
       /\ UNCHANGED <<faults, call, log, tests>>

\* the closure has returned (or the panic has left it): the thread is free
Return(t) ==
    /\ threads[t].pc \in {"done", "panicked"}
    /\ threads' = [threads EXCEPT ![t] = Idle]
    /\ UNCHANGED <<faults, call, log, tests>>

\* ------------------------------------------- direct use of the functions
RECURSIVE SeqsOfLen(_, _)
SeqsOfLen(S, n) ==
    IF n = 0 THEN {<<>>}
    ELSE {Append(s, x) : s \in SeqsOfLen(S, n - 1), x \in S}
SeqsUpTo(S, n) == UNION {SeqsOfLen(S, k) : k \in 0..n}

\* identities the assembler is called with
AuraIds == {authority_key(l).val : l \in {Alice, Bob}}
AccountIds == {account_key(l).val : l \in {Alice, Bob, Charlie}}

\* one call of testnet_genesis with arguments of its parameter types
\* (a behaviour makes one such call)
CallTestnetGenesis ==
    /\ call = None
    /\ \E ia \in SeqsUpTo(AuraIds, MaxAuthorities),
          ea \in SeqsUpTo(AccountIds, MaxEndowed),
          rk \in AccountIds :
          call' = Some([initial_authorities |-> ia, endowed_accounts |-> ea,
                        root_key |-> rk, out |-> testnet_genesis(ia, ea, rk)])
    /\ UNCHANGED <<threads, faults, log, tests>>

\* one call of authority_key(l)
CallAuthorityKey ==
    /\ Len(log) < MaxCalls
    /\ \E l \in Labels :
          log' = Append(log, [kind |-> "authority", label |-> l, out |-> authority_key(l)])
    /\ UNCHANGED <<threads, faults, call, tests>>

\* one call of account_key(l)
CallAccountKey ==
    /\ Len(log) < MaxCalls
    /\ \E l \in Labels :
          log' = Append(log, [kind |-> "account", label |-> l, out |-> account_key(l)])
    /\ UNCHANGED <<threads, faults, call, tests>>

\* one iteration of #[test] derive_account_key
derive_account_key ==
    LET st == tests.derive_account_key
        r == account_key(KEY_DERIVE_NAMES[st.i + 1])
    IN /\ ~st.failed
       /\ st.i < Len(KEY_DERIVE_NAMES)
       /\ tests' = [tests EXCEPT !.derive_account_key =
                       IF r.panic THEN [st EXCEPT !.failed = TRUE]
                       ELSE [st EXCEPT !.i = @ + 1]]
       /\ UNCHANGED <<threads, faults, call, log>>

\* one iteration of #[test] derive_authority_key
derive_authority_key ==
    LET st == tests.derive_authority_key
        r == authority_key(KEY_DERIVE_NAMES[st.i + 1])
    IN /\ ~st.failed
       /\ st.i < Len(KEY_DERIVE_NAMES)
       /\ tests' = [tests EXCEPT !.derive_authority_key =
                       IF r.panic THEN [st EXCEPT !.failed = TRUE]
                       ELSE [st EXCEPT !.i = @ + 1]]
       /\ UNCHANGED <<threads, faults, call, log>>

\* --------------------------------------------------------- specifications
\* key-generation steps whose failure is injected
FaultCandidates ==
    {<<"ed25519", DeriveJunction_soft(Bob).cc>>,
     <<"sr25519", DeriveJunction_soft(Alice).cc>>,
     <<"sr25519", DeriveJunction_soft(Dave).cc>>}

InitCommon ==
    /\ threads = [t \in Threads |-> Idle]
    /\ call = None
    /\ log = <<>>
    /\ tests = [derive_account_key |-> [i |-> 0, failed |-> FALSE],
                derive_authority_key |-> [i |-> 0, failed |-> FALSE]]

Init == InitCommon /\ faults = {}

\* the profile builders on concurrent threads, sound primitive
Next ==
    \E t \in Threads :
        \/ dev(t)
        \/ local(t)
        \/ DeriveAuthority(t)
        \/ DeriveEndowed(t)
        \/ DeriveRoot(t)
        \/ Assemble(t)
        \/ Return(t)

Spec == Init /\ [][Next]_vars

\* the same, with a primitive that fails on some key-generation steps
InitFault == InitCommon /\ faults \in SUBSET FaultCandidates
SpecFault == InitFault /\ [][Next]_vars

\* the assembler called directly
NextAssembler == CallTestnetGenesis
SpecAssembler == Init /\ [][NextAssembler]_vars

\* the derivers called directly and by the tests
NextDerive ==
    \/ CallAuthorityKey
    \/ CallAccountKey
    \/ derive_account_key
    \/ derive_authority_key
SpecDerive == Init /\ [][NextDerive]_vars

\* ------------------------------------------------------------ properties
\* 1 << 60 as a u128: bit 60 alone
FIXED_BALANCE == {60}

Finished(t) == threads[t].pc = "done"
GenesisOf(t) == threads[t].genesis[1]
Count(q, a) == Cardinality({i \in 1..Len(q) : q[i] = a})
BalanceKeys(g) == [i \in 1..Len(g.srml_balances.balances) |-> g.srml_balances.balances[i][1]]

C2_AuthoritiesPreserved ==
    \A c \in Range(call) :
        /\ Len(c.out.srml_aura.authorities) = Len(c.initial_authorities)
        /\ \A i \in 1..Len(c.initial_authorities) :
              c.out.srml_aura.authorities[i] = c.initial_authorities[i]

C2_Witness ==
    \E c \in Range(call) :
        /\ Len(c.initial_authorities) = 2
        /\ c.initial_authorities[1] = c.initial_authorities[2]
        /\ Len(c.out.srml_aura.authorities) = 2

C4_RootKeyIsEndowed ==
    \A c \in Range(call) : c.out.srml_sudo.key \in Range(c.endowed_accounts)

\* C5: a finished local() closure has the authorities of "Alice", "Bob" in that
\* order, the six pairwise distinct accounts of Alice..Ferdie, Alice's identity
\* in both lists, and the account of "Alice" as administrative key, which is endowed.
C5_LocalProfile ==
    \A t \in Threads :
        (Finished(t) /\ threads[t].profile = "local") =>
            LET g == GenesisOf(t)
                ids == g.srml_indices.ids
            IN /\ g.srml_aura.authorities =
                      <<authority_key(Alice).val, authority_key(Bob).val>>
               /\ Len(ids) = 6
               /\ \A i, j \in 1..Len(ids) : i # j => ids[i] # ids[j]
               /\ Range(ids) = {account_key(l).val :
                                   l \in {Alice, Bob, Charlie, Dave, Eve, Ferdie}}
               /\ BalanceKeys(g) = ids
               /\ authority_key(Alice).val \in Range(g.srml_aura.authorities)
               /\ account_key(Alice).val \in Range(ids)
               /\ g.srml_sudo.key = account_key(Alice).val
               /\ g.srml_sudo.key \in Range(ids)

C5_Witness ==
    \E t \in Threads :
        /\ Finished(t) /\ threads[t].profile = "local"
        /\ Len(GenesisOf(t).srml_aura.authorities) = 2
        /\ Cardinality(Range(GenesisOf(t).srml_indices.ids)) = 6

\* C6: a finished dev() closure has the one authority of "Alice", one endowed
\* account with balance 1 << 60, and that account as administrative key.
C6_DevProfile ==
    \A t \in Threads :
        (Finished(t) /\ threads[t].profile = "dev") =>
            LET g == GenesisOf(t)
            IN /\ g.srml_aura.authorities = <<authority_key(Alice).val>>
               /\ Len(g.srml_indices.ids) = 1
               /\ Len(g.srml_balances.balances) = 1
               /\ g.srml_balances.balances[1][1] = g.srml_indices.ids[1]
               /\ g.srml_balances.balances[1][2] = FIXED_BALANCE
               /\ g.srml_sudo.key = g.srml_balances.balances[1][1]

C6_Witness ==
    \E t \in Threads :
        /\ Finished(t) /\ threads[t].profile = "dev"
        /\ Len(GenesisOf(t).srml_balances.balances) = 1

\* the derivations of a profile's closure, in evaluation order
Derivations(profile) ==
    [i \in 1..Len(authority_labels(profile)) |->
        <<"ed25519", authority_labels(profile)[i]>>]
    \o [i \in 1..Len(endowed_labels(profile)) |->
        <<"sr25519", endowed_labels(profile)[i]>>]
    \o << <<"sr25519", root_label(profile)>> >>

Fails(d) == <<d[1], ChainCode(Encode(d[2]))>> \in faults
FailingSteps(profile) ==
    {i \in 1..Len(Derivations(profile)) : Fails(Derivations(profile)[i])}

C7_AllOrNothing ==
    \A t \in Threads :
        LET th == threads[t]
            bad == FailingSteps(th.profile)
        IN th.pc # "idle" =>
            /\ th.genesis # None => bad = {}
            /\ th.pc \in {"assemble", "done"} => bad = {}
            /\ th.pc = "panicked" =>
                  /\ th.genesis = None
                  /\ th.derived \in bad
                  /\ \A i \in bad : th.derived <= i
            /\ th.pc \in {"authorities", "endowed", "root"} =>
                  \A i \in bad : th.derived < i

C7_NoRetry ==
    \A t \in Threads :
        threads[t].pc = "panicked" => threads'[t].pc \in {"panicked", "idle"}

\* C7: a closure in which a derivation fails stops at the first failing
\* derivation, derives nothing after it and returns no genesis state; a
\* genesis state exists only when every derivation of the profile succeeded.
C7_FailureIsFatal == []C7_AllOrNothing /\ [][C7_NoRetry]_vars

C7_Witness ==
    \E t \in Threads :
        /\ threads[t].pc = "panicked" /\ threads[t].profile = "local"
        /\ threads[t].derived >= 2
        /\ threads[t].genesis = None

C8_Identical ==
    \A t, u \in Threads :
        (Finished(t) /\ Finished(u) /\ threads[t].profile = threads[u].profile)
            => threads[t].genesis = threads[u].genesis

C8_OwnDerivations ==
    \A t \in Threads :
        Finished(t) =>
            /\ threads[t].derived = Len(Derivations(threads[t].profile))
            /\ Len(threads[t].initial_authorities) = Len(authority_labels(threads[t].profile))
            /\ Len(threads[t].endowed_accounts) = Len(endowed_labels(threads[t].profile))

C8_NoInterference ==
    \A t \in Threads :
        threads'[t] # threads[t] => \A u \in Threads \ {t} : threads'[u] = threads[u]

\* C8: under every interleaving each closure makes all its derivations itself,
\* a step of one closure changes no other closure's state, and two finished
\* closures of the same profile hold the same genesis state.
C8_Independent == [](C8_Identical /\ C8_OwnDerivations) /\ [][C8_NoInterference]_vars

C8_Witness ==
    \E t, u \in Threads :
        /\ t # u /\ Finished(t) /\ Finished(u)
        /\ threads[t].profile = "local" /\ threads[u].profile = "local"
        /\ threads[t].genesis = threads[u].genesis

\* C9: every call of account_key and authority_key returns a key, for labels
\* with '/' and numeric labels too, and the key's path is one hard junction
\* made of the whole label; neither test panics.
C9_DerivationSucceeds ==
    /\ \A i \in 1..Len(log) :
          /\ ~log[i].out.panic
          /\ LET path == log[i].out.val.of[2]
             IN /\ Len(path) = 1
                /\ path[1].hard
                /\ path[1].cc = ChainCode(Encode(log[i].label))
    /\ ~tests.derive_account_key.failed
    /\ ~tests.derive_authority_key.failed

C9_Witness ==
    /\ tests.derive_account_key.i = Len(KEY_DERIVE_NAMES)
    /\ tests.derive_authority_key.i = Len(KEY_DERIVE_NAMES)
    /\ \E i, j \in 1..Len(log) :
          /\ log[i].kind = "authority" /\ log[i].label = KEY_DERIVE_NAMES[2]
          /\ log[j].kind = "account" /\ log[j].label = KEY_DERIVE_NAMES[4]
          /\ ~log[i].out.panic /\ ~log[j].out.panic

\* C10: the index table is the input endowed accounts in input order, and the
\* balances list names the same account at every position, with nothing else.
C10_IndexTableAligned ==
    \A c \in Range(call) :
        LET ids == c.out.srml_indices.ids
            bal == c.out.srml_balances.balances
        IN /\ ids = c.endowed_accounts
           /\ Len(bal) = Len(ids)
           /\ \A i \in 1..Len(ids) : bal[i][1] = ids[i]
           /\ Range(ids) \subseteq Range(c.endowed_accounts)
           /\ Range(BalanceKeys(c.out)) \subseteq Range(c.endowed_accounts)

C10_Witness ==
    \E c \in Range(call) :
        /\ Len(c.endowed_accounts) = 3
        /\ c.endowed_accounts[1] # c.endowed_accounts[2]
        /\ c.endowed_accounts[2] # c.endowed_accounts[3]
        /\ c.out.srml_indices.ids = c.endowed_accounts
        /\ Len(c.out.srml_balances.balances) = 3
====
